---- MODULE Spec2Model ----
(***************************************************************************)
(* A model of the dynamic input-output planning simulation                 *)
(* (src/Code/model.py, src/Code/main.py).                                  *)
(*                                                                         *)
(* Numbers.  The program computes with IEEE doubles.  The model computes   *)
(* with integers: a quantity is an integer number of units, a division     *)
(* rounds down (the program's division rounds to the nearest double), and  *)
(* a division by zero yields NaN, the one value that stands for every      *)
(* non-finite double (nan, +inf, -inf).  NaN is absorbing, as nan is in    *)
(* numpy.  A vector is a sequence of numbers, a matrix a sequence of rows. *)
(***************************************************************************)
EXTENDS Integers, Sequences, FiniteSets, TLC

\* ------------------------------------------------------------------ bounds
\* Sector count n of the simulated economy (config['n']).
N == 2
\* Largest Neumann truncation order k drawn.
MaxK == 3
\* Largest forecaster window W drawn.
MaxW == 3
\* Largest planning horizon T_plan drawn (T = T_plan + W).
MaxTPlan == 2
\* Largest number of add_observation calls in the forecaster harness.
MaxObs == 5
\* Largest k_max drawn for the convergence diagnostic.
MaxKmax == 3

\* ----------------------------------------------------------- float values
\* Any non-finite double: what numpy yields for x/0 and everything computed
\* from it.
NaN == -999999999

IsNaN(a) == a = NaN

Add(a, b) == IF a = NaN \/ b = NaN THEN NaN ELSE a + b

Sub(a, b) == IF a = NaN \/ b = NaN THEN NaN ELSE a - b

Mul(a, b) == IF a = NaN \/ b = NaN THEN NaN ELSE a * b

Neg(a) == IF a = NaN THEN NaN ELSE 0 - a

\* a / b: numpy warns and returns a non-finite value when b is zero.
Div(a, b) == IF a = NaN \/ b = NaN \/ b = 0 THEN NaN ELSE a \div b

\* np.minimum, which propagates nan.
Minimum(a, b) == IF a = NaN \/ b = NaN THEN NaN ELSE IF a < b THEN a ELSE b

\* a < b on doubles: every comparison with nan is False.
Less(a, b) == a # NaN /\ b # NaN /\ a < b

\* The largest r in lo..hi with r * r <= m, by bisection.
RECURSIVE ISqrtIn(_, _, _)
ISqrtIn(m, lo, hi) ==
    IF lo = hi THEN lo
    ELSE LET mid == (lo + hi + 1) \div 2
         IN  IF mid * mid <= m THEN ISqrtIn(m, mid, hi) ELSE ISqrtIn(m, lo, mid - 1)

\* The square root, rounded down.
Sqrt(a) ==
    IF a = NaN \/ a < 0 THEN NaN
    ELSE ISqrtIn(a, 0, IF a < 46340 THEN a ELSE 46340)

\* ---------------------------------------------------------------- vectors
\* A numpy array is a value: the function, evaluated, as a sequence.
Vec(f) == <<>> \o f

Zeros(n) == [i \in 1..n |-> 0]

Ones(n) == [i \in 1..n |-> 1]

VAdd(u, v) == Vec([i \in 1..Len(u) |-> Add(u[i], v[i])])

VSub(u, v) == Vec([i \in 1..Len(u) |-> Sub(u[i], v[i])])

VMul(u, v) == Vec([i \in 1..Len(u) |-> Mul(u[i], v[i])])

VDiv(u, v) == Vec([i \in 1..Len(u) |-> Div(u[i], v[i])])

VNeg(u) == Vec([i \in 1..Len(u) |-> Neg(u[i])])

VMinimum(u, v) == Vec([i \in 1..Len(u) |-> Minimum(u[i], v[i])])

\* scalar * vector
Scale(c, v) == Vec([i \in 1..Len(v) |-> Mul(c, v[i])])

RECURSIVE SumTo(_, _)
SumTo(v, m) == IF m = 0 THEN 0 ELSE Add(SumTo(v, m - 1), v[m])

\* v.sum()
Sum(v) == SumTo(v, Len(v))

\* u @ v, the inner product
Dot(u, v) == Sum(VMul(u, v))

\* M @ v
MatVec(M, v) == Vec([i \in 1..Len(M) |-> Dot(M[i], v)])

\* M.T
Transpose(M) == [j \in 1..Len(M) |-> [i \in 1..Len(M) |-> M[i][j]]]

\* np.eye(n)
Eye(n) == [i \in 1..n |-> [j \in 1..n |-> IF i = j THEN 1 ELSE 0]]

\* np.diag(vec)
Diag(d) == [i \in 1..Len(d) |-> [j \in 1..Len(d) |-> IF i = j THEN d[i] ELSE 0]]

\* M1 - M2
MatSub(M1, M2) == Vec([i \in 1..Len(M1) |-> VSub(M1[i], M2[i])])

\* The number of columns of M; M @ v raises ValueError unless it is len(v).
Cols(M) == IF Len(M) = 0 THEN 0 ELSE Len(M[1])

\* np.linalg.norm(v)
Norm(v) == Sqrt(Dot(v, v))

\* --------------------------------------------------------------- neumann
\* The loop body with its two statements swapped: x takes the old term.
NeumannBodySwapped(A, s) ==
    [x |-> VAdd(s.x, s.term), term |-> MatVec(A, s.term)]

\* One pass of the loop body of neumann on the pair (x, term).
NeumannBody(A, s) ==
    LET term == MatVec(A, s.term)
    IN  [x |-> VAdd(s.x, term), term |-> term]

\* The loop of neumann: range(1, k) runs the body for i = 1 .. k-1.
RECURSIVE NeumannLoop(_, _, _, _)
NeumannLoop(A, s, i, k) ==
    IF i < k THEN NeumannLoop(A, NeumannBody(A, s), i + 1, k) ELSE s

neumann(A, v, k) == NeumannLoop(A, [x |-> v, term |-> v], 1, k).x

\* ------------------------------------------------------------- input sets
\* The n x n matrices drawn: a on the last diagonal place, b on the
\* superdiagonal, c on the subdiagonal, zero elsewhere. They include the zero
\* matrix, nilpotent matrices (spectral radius 0) and matrices of spectral
\* radius 1 and more.
Band(n, a, b, c) ==
    [i \in 1..n |-> [j \in 1..n |->
        IF j = i + 1 THEN b
        ELSE IF i = j + 1 THEN c
        ELSE IF i = n /\ j = n THEN a
        ELSE 0]]

\* The n-vectors drawn: x in the first place, y in the others.
Ramp(n, x, y) == [i \in 1..n |-> IF i = 1 THEN x ELSE y]

\* Largest matrix entry and largest vector entry drawn.
MaxEntry == 2
MaxVal == 3

Matrices == {Band(N, a, b, c) : a \in 0..MaxEntry, b \in 0..MaxEntry, c \in 0..MaxEntry}

Vectors == {Ramp(N, x, y) : x \in 0..MaxVal, y \in 0..MaxVal}

VARIABLES
    nm,     \* a call of neumann(A, v, k), statement by statement
    dg,     \* a call of test_neumann_convergence, statement by statement
    fc,     \* an AR1Forecaster object and the last operation applied to it
    pc,     \* main(): the statement it is at
    config, \* main(): the loaded configuration
    data,   \* main(): the loaded data
    conv,   \* main(): convergence_results
    sim,    \* main(): the dict initialize_simulation returns
    t,      \* run_simulation: the loop variable
    results, \* main(): the dict compute_results returns
    exc     \* main(): the exception that ended the run

vars == <<nm, dg, fc, pc, config, data, conv, sim, t, results, exc>>

\* The value of a name that is not bound (yet).
Unbound == [pc |-> "idle"]

mainVars == <<pc, config, data, conv, sim, t, results, exc>>

MainIdle ==
    /\ pc = "idle"
    /\ config = Unbound
    /\ data = Unbound
    /\ conv = Unbound
    /\ sim = Unbound
    /\ t = 0
    /\ results = Unbound
    /\ exc = "none"

\* ------------------------------------------------- a call of neumann(A, v, k)
\* v.copy() is a new array: in-place writes to it do not reach v.
CopyShares == FALSE

\* Entry: caller's arrays A and v; lines 7-8 bind x and term to copies of v.
NeumannEnter(A, v, k) ==
    [pc |-> "loop", A |-> A, v |-> v, k |-> k,
     A_arg |-> A, v_arg |-> v,
     x |-> v, x_shares_v |-> CopyShares, term |-> v,
     i |-> 1, products |-> 0]

NeumannInit ==
    \E A \in Matrices, v \in Vectors, k \in 1..MaxK :
        nm = NeumannEnter(A, v, k)

\* for _ in range(1, k): term = A @ term; x += term
NeumannIter ==
    /\ nm.pc = "loop"
    /\ nm.i < nm.k
    /\ LET s == NeumannBody(nm.A, [x |-> nm.x, term |-> nm.term])
       IN  nm' = [nm EXCEPT !.x = s.x, !.term = s.term,
                            !.v = IF nm.x_shares_v THEN s.x ELSE @,
                            !.i = @ + 1, !.products = @ + 1]
    /\ UNCHANGED <<dg, fc, mainVars>>

\* return x
NeumannReturn ==
    /\ nm.pc = "loop"
    /\ ~(nm.i < nm.k)
    /\ nm' = [nm EXCEPT !.pc = "returned"]
    /\ UNCHANGED <<dg, fc, mainVars>>

\* --------------------------------------- a call of test_neumann_convergence
\* converged_k = None: no step (steps count from 1).
NoStep == 0

\* Largest tolerance drawn.
MaxTol == 2

\* error = np.linalg.norm(term) / d_norm * 100, in percent. The model multiplies
\* before it divides: the program's quotient is a double, and rounding it down
\* before the multiplication would lose the percent.
RelError(term, d_norm) == Div(Mul(Norm(term), 100), d_norm)

\* The test without "and not converged": every step below the threshold
\* overwrites the step.
DeclareEvery(s, error, tolerance, k) ==
    IF Less(error, Mul(tolerance, 100))
    THEN [s EXCEPT !.converged = TRUE, !.converged_k = k]
    ELSE s

\* Lines 55-58: the first step below tolerance*100 sets the flag and the step.
Declare(s, error, tolerance, k) ==
    IF Less(error, Mul(tolerance, 100)) /\ ~s.converged
    THEN [s EXCEPT !.converged = TRUE, !.converged_k = k]
    ELSE s

\* The loop body for step k (lines 50-58).
DiagBody(A, d_norm, tolerance, s, k) ==
    LET term  == MatVec(A, s.term)
        error == RelError(term, d_norm)
        s1    == [s EXCEPT !.term = term, !.x = VAdd(s.x, term),
                           !.errors = Append(s.errors, error)]
    IN  Declare(s1, error, tolerance, k)

\* Lines 42-47.
DiagEnter(test_vector) ==
    [x |-> test_vector, term |-> test_vector, errors |-> <<>>,
     converged |-> FALSE, converged_k |-> NoStep]

\* for k in range(1, k_max + 1)
RECURSIVE DiagLoop(_, _, _, _, _, _)
DiagLoop(A, d_norm, tolerance, s, k, k_max) ==
    IF k <= k_max
    THEN DiagLoop(A, d_norm, tolerance, DiagBody(A, d_norm, tolerance, s, k), k + 1, k_max)
    ELSE s

\* The dict returned (lines 64-70); errors[-1] needs a step to have run.
DiagResult(s, tolerance) ==
    [converged |-> s.converged, converged_k |-> s.converged_k,
     errors |-> s.errors, final_error |-> s.errors[Len(s.errors)],
     tolerance |-> Mul(tolerance, 100)]

test_neumann_convergence(A, test_vector, k_max, tolerance) ==
    DiagResult(DiagLoop(A, Norm(test_vector), tolerance,
                        DiagEnter(test_vector), 1, k_max), tolerance)

DiagInit ==
    \E A \in Matrices, v \in Vectors, k_max \in 0..MaxKmax, tol \in 0..MaxTol :
        dg = [pc |-> "loop", A |-> A, test_vector |-> v, k_max |-> k_max,
              tolerance |-> tol, d_norm |-> Norm(v), s |-> DiagEnter(v), k |-> 1,
              result |-> Unbound, raised |-> "none"]

DiagIter ==
    /\ dg.pc = "loop"
    /\ dg.k <= dg.k_max
    /\ dg' = [dg EXCEPT !.s = DiagBody(dg.A, dg.d_norm, dg.tolerance, dg.s, dg.k),
                        !.k = @ + 1]
    /\ UNCHANGED <<nm, fc, mainVars>>

\* Lines 60-70 with at least one error recorded.
DiagReturn ==
    /\ dg.pc = "loop"
    /\ ~(dg.k <= dg.k_max)
    /\ Len(dg.s.errors) > 0
    /\ dg' = [dg EXCEPT !.pc = "returned", !.result = DiagResult(dg.s, dg.tolerance)]
    /\ UNCHANGED <<nm, fc, mainVars>>

\* Lines 60-70 with k_max = 0: errors[-1] of the empty list raises IndexError.
DiagRaise ==
    /\ dg.pc = "loop"
    /\ ~(dg.k <= dg.k_max)
    /\ Len(dg.s.errors) = 0
    /\ dg' = [dg EXCEPT !.pc = "raised", !.raised = "IndexError"]
    /\ UNCHANGED <<nm, fc, mainVars>>

\* ---------------------------------------------------------- AR1Forecaster
\* phi, c and sigma before the first fit.
None == <<>>

\* __init__
AR1Forecaster(window_size) ==
    [window_size |-> window_size, history |-> <<>>,
     phi |-> None, c |-> None, sigma |-> None, is_fitted |-> FALSE]

\* pop() in place of pop(0): the newest observation is dropped.
EvictNewest(history, window_size) ==
    IF Len(history) > window_size
    THEN SubSeq(history, 1, Len(history) - 1) ELSE history

\* Lines 180-181: keep only the last window_size observations.
Evict(history, window_size) ==
    IF Len(history) > window_size THEN Tail(history) ELSE history

add_observation(f, value) ==
    [f EXCEPT !.history = Evict(Append(f.history, value), f.window_size)]

\* np.linalg.lstsq on [x, 1] beta = y for one component: the least-squares
\* solution, and the one of least norm when x is constant (rank 1).
Lstsq(xs, ys) ==
    LET m   == Len(xs)
        Sx  == Sum(xs)
        Sy  == Sum(ys)
        Sxx == Sub(Mul(m, Dot(xs, xs)), Mul(Sx, Sx))
        Sxy == Sub(Mul(m, Dot(xs, ys)), Mul(Sx, Sy))
        a   == xs[1]
        d   == Mul(m, Add(Mul(a, a), 1))
        phi == IF Sxx # 0 THEN Div(Sxy, Sxx) ELSE Div(Mul(a, Sy), d)
        c   == IF Sxx # 0 THEN Div(Sub(Sy, Mul(phi, Sx)), m) ELSE Div(Sy, d)
    IN  <<phi, c>>

\* np.std(r, ddof=1): nan for a single residual.
Std1(r) ==
    LET m    == Len(r)
        mean == Div(Sum(r), m)
        dev  == [j \in 1..m |-> Sub(r[j], mean)]
    IN  Sqrt(Div(Dot(dev, dev), m - 1))

\* Lines 212-220 for component i of the history.
FitComponent(history, i) ==
    LET m    == Len(history) - 1
        xs   == [j \in 1..m |-> history[j][i]]
        ys   == [j \in 1..m |-> history[j + 1][i]]
        beta == Lstsq(xs, ys)
        r    == [j \in 1..m |-> Sub(ys[j], Add(Mul(beta[1], xs[j]), beta[2]))]
    IN  [phi |-> beta[1], c |-> beta[2], sigma |-> Std1(r)]

\* A fit that asks for more than two points.
TooFewPointsForThree(f) == Len(f.history) <= 2

\* Line 185: with fewer than 2 history points fit marks the model unfitted.
TooFewPoints(f) == Len(f.history) < 2

fit(f) ==
    IF TooFewPoints(f)
    THEN [f EXCEPT !.is_fitted = FALSE]
    ELSE LET n_vars == Len(f.history[1])
             p == [i \in 1..n_vars |-> FitComponent(f.history, i)]
         IN  [f EXCEPT !.phi = [i \in 1..n_vars |-> p[i].phi],
                       !.c = [i \in 1..n_vars |-> p[i].c],
                       !.sigma = [i \in 1..n_vars |-> p[i].sigma],
                       !.is_fitted = TRUE]

\* The guard with its test inverted.
NotFittedInverted(f) == f.is_fitted

\* Lines 229 and 252: predict and predict_with_uncertainty raise ValueError.
NotFitted(f) == ~f.is_fitted

\* next_val = self.phi * current + self.c
NextVal(f, current) == VAdd(VMul(f.phi, current), f.c)

RECURSIVE Predictions(_, _, _)
Predictions(f, current, n_steps) ==
    IF n_steps = 0 THEN <<>>
    ELSE LET next_val == NextVal(f, current)
         IN  <<next_val>> \o Predictions(f, next_val, n_steps - 1)

\* The value predict returns when the model is fitted.
predict(f, last_value, n_steps) ==
    LET predictions == Predictions(f, last_value, n_steps)
    IN  IF n_steps = 1 THEN predictions[1] ELSE predictions

\* ------------------------------------- an AR1Forecaster object and its caller
\* Largest entry of an observation drawn.
MaxObsVal == 2

Observations == {Ramp(N, x, 1) : x \in 0..MaxObsVal}

\* np.random.normal(0, sigma, n): a draw z standard deviations from 0 in
\* every component.
Noise(sigma, z) == Scale(z, sigma)

\* predict_with_uncertainty(last_value, n_steps=1, n_simulations=1) on a fitted
\* model with the draw z: one simulation, so mean and percentiles are its value.
predict_with_uncertainty(f, last_value, z) ==
    LET next_val == VAdd(NextVal(f, last_value), Noise(f.sigma, z))
    IN  [mean |-> next_val, lower_5 |-> next_val, upper_95 |-> next_val,
         simulations |-> <<<<next_val>>>>]

ForecasterInit ==
    \E W \in 0..MaxW :
        fc = [pc |-> "live", obj |-> AR1Forecaster(W), added |-> <<>>, op |-> "__init__",
              raised |-> "none", ret |-> None]

FcAddObservation ==
    /\ fc.pc # "idle"
    /\ Len(fc.added) < MaxObs
    /\ \E value \in Observations :
        fc' = [fc EXCEPT !.obj = add_observation(fc.obj, value),
                         !.added = Append(@, value),
                         !.op = "add_observation", !.raised = "none", !.ret = None]
    /\ UNCHANGED <<nm, dg, mainVars>>

FcFit ==
    /\ fc.pc # "idle"
    /\ fc' = [fc EXCEPT !.obj = fit(fc.obj),
                        !.op = "fit", !.raised = "none", !.ret = None]
    /\ UNCHANGED <<nm, dg, mainVars>>

FcPredict ==
    /\ fc.pc # "idle"
    /\ \E last_value \in Observations, n_steps \in 1..2 :
        fc' = IF NotFitted(fc.obj)
              THEN [fc EXCEPT !.op = "predict", !.raised = "ValueError", !.ret = None]
              ELSE [fc EXCEPT !.op = "predict", !.raised = "none",
                              !.ret = predict(fc.obj, last_value, n_steps)]
    /\ UNCHANGED <<nm, dg, mainVars>>

FcPredictWithUncertainty ==
    /\ fc.pc # "idle"
    /\ \E last_value \in Observations, z \in {-1, 0, 1} :
        fc' = IF NotFitted(fc.obj)
              THEN [fc EXCEPT !.op = "predict_with_uncertainty",
                              !.raised = "ValueError", !.ret = None]
              ELSE [fc EXCEPT !.op = "predict_with_uncertainty", !.raised = "none",
                              !.ret = predict_with_uncertainty(fc.obj, last_value, z)]
    /\ UNCHANGED <<nm, dg, mainVars>>

InitForecaster == ForecasterInit /\ nm = Unbound /\ dg = Unbound /\ MainIdle

NextForecaster == FcAddObservation \/ FcFit \/ FcPredict \/ FcPredictWithUncertainty

SpecForecaster == InitForecaster /\ [][NextForecaster]_vars

InitDiag == DiagInit /\ nm = Unbound /\ fc = Unbound /\ MainIdle

NextDiag == DiagIter \/ DiagReturn \/ DiagRaise

SpecDiag == InitDiag /\ [][NextDiag]_vars

InitNeumann == NeumannInit /\ dg = Unbound /\ fc = Unbound /\ MainIdle

NextNeumann == NeumannIter \/ NeumannReturn

SpecNeumann == InitNeumann /\ [][NextNeumann]_vars

\* ================================================================== main()
SeriesNames ==
    {"X", "X_max", "U", "K", "K_e", "I", "C_p", "C_0", "C", "F", "ED", "K_u",
     "AD", "G", "F_c"}

\* np.zeros((T, n)) under each of the fifteen names.
initialize_state_arrays(T, n) ==
    [name \in SeriesNames |-> [p \in 0..(T - 1) |-> Zeros(n)]]

\* np.random.uniform(lo, hi, count): the draws that are multiples of unit.
Uniform(lo, hi, count, unit) ==
    [1..count -> {x \in lo..hi : x % unit = 0}]

\* This variant sizes the light class as the rest of the n sectors.
ClassSizesLightFromN(cfg) ==
    <<cfg.n_heavy, cfg.n_medium, cfg.n - cfg.n_heavy - cfg.n_medium>>

\* The sizes of the heavy, medium and light classes (lines 92-94, 118-120).
ClassSizes(cfg) == <<cfg.n_heavy, cfg.n_medium, cfg.n_light>>

\* The monthly depreciation vectors create_delta_matrix can draw: annual
\* rates per class, divided by 12, concatenated.
DeltaVecs(cfg) ==
    LET sz == ClassSizes(cfg)
    IN  {[i \in 1..Len(h \o m \o l) |-> Div((h \o m \o l)[i], 12)] :
            h \in Uniform(cfg.delta_heavy_min, cfg.delta_heavy_max, sz[1], 12),
            m \in Uniform(cfg.delta_medium_min, cfg.delta_medium_max, sz[2], 12),
            l \in Uniform(cfg.delta_light_min, cfg.delta_light_max, sz[3], 12)}

\* The diagonals create_capital_intensity_matrix can draw.
BDiags(cfg) ==
    LET sz == ClassSizes(cfg)
    IN  {h \o m \o l :
            h \in Uniform(cfg.heavy_diag_min, cfg.heavy_diag_max, sz[1], 1),
            m \in Uniform(cfg.medium_diag_min, cfg.medium_diag_max, sz[2], 1),
            l \in Uniform(cfg.light_diag_min, cfg.light_diag_max, sz[3], 1)}

\* np.linalg.inv of the diagonal matrix np.diag(d), kept as d.
Inv(d) == [inv_of |-> d]

\* B_inv @ v: row i is v[i] / d[i] plus zero times every other entry.
InvVec(Binv, v) ==
    [i \in 1..Len(Binv.inv_of) |->
        Sum([j \in 1..Len(v) |->
            IF i = j THEN Div(v[j], Binv.inv_of[j]) ELSE Mul(0, v[j])])]

create_mu_vector(cfg) ==
    [i \in 1..cfg.n |->
        IF i <= cfg.n_heavy THEN cfg.mu_heavy
        ELSE IF i <= cfg.n_heavy + cfg.n_medium THEN cfg.mu_medium
        ELSE cfg.mu_light]

\* (1 + g_a)**(1/12) - 1, for the annual rates whose twelfth root is whole.
MonthlyRate(g_a) ==
    (CHOOSE r \in 1..4 : r^12 = 1 + g_a) - 1

RECURSIVE GCD(_, _)
GCD(a, b) == IF b = 0 THEN a ELSE GCD(b, a % b)

RECURSIVE GCDTo(_, _)
GCDTo(v, m) == IF m = 0 THEN 0 ELSE GCD(v[m], GCDTo(v, m - 1))

\* The vector of shares num[i] / den, in lowest terms.
Shares(num, den) ==
    LET d == GCD(den, GCDTo(num, Len(num)))
    IN  IF d = 0 THEN [num |-> num, den |-> den]
        ELSE [num |-> Vec([i \in 1..Len(num) |-> num[i] \div d]), den |-> den \div d]

\* alpha * y / p elementwise, for shares alpha, a scalar y and a vector p.
SharesTimesOver(alpha, y, p) ==
    [i \in 1..Len(alpha.num) |->
        Div(Mul(alpha.num[i], y), Mul(alpha.den, p[i]))]

\* This variant leaves alpha_tilde as line 19 made it.
NormaliseSkipped(a) == a

\* Line 20: alpha_tilde /= alpha_tilde.sum(). Dividing the shares num/den by
\* their sum (sum num)/den leaves num over sum num.
Normalise(a) == Shares(a.num, Sum(a.num))

Min2(a, b) == IF a < b THEN a ELSE b

RECURSIVE MinOf(_, _)
MinOf(v, m) == IF m = 1 THEN v[1] ELSE Min2(MinOf(v, m - 1), v[m])

\* np.exp(z) in units where a step of 1 doubles, up to the common factor
\* exp(min z), which line 20 cancels.
Exp(z) == Vec([i \in 1..Len(z) |-> 2^(z[i] - MinOf(z, Len(z)))])

\* update_alpha with the draw eps of line 16. The product of line 19 is a new
\* array, which line 20 divides in place; the third component is the array
\* alpha_prev as the call leaves it.
update_alpha(alpha_prev, shock_prev, eps, persist, mu) ==
    LET shock       == VAdd(Scale(persist, shock_prev), eps)
        alpha_tilde == Shares(VMul(alpha_prev.num, Exp(VAdd(mu, shock))),
                              alpha_prev.den)
    IN  <<Normalise(alpha_tilde), shock, alpha_prev>>

\* The draws of np.random.normal(0.0, sigma, size=n) taken: zero, and sigma in
\* the first component.
NormalDraws(sigma, n) ==
    {Zeros(n), [i \in 1..n |-> IF i = 1 THEN sigma ELSE 0]}

\* This variant writes one period ahead (the last period onto itself).
StoreAhead(s, name, p, v, by) ==
    [s EXCEPT !.states[name][Min2(p + 1, s.T - 1)] = v,
              !.written = @ \cup {<<name, Min2(p + 1, s.T - 1), by>>}]

\* states[name][p] = v, and the record of the write: which entry, and the
\* period of the step that wrote it (0: initialize_simulation). The entry
\* alpha_prev of sim is a record of the same kind: the array last passed to
\* update_alpha as alpha_prev, as that call left it (alpha itself before any
\* call). calls records, in order, each call the loop makes of update_alpha,
\* fit and predict: the period, the callee and the length of the callee's history
\* at the call (0 for update_alpha). hat holds the last period's locals
\* Delta_C_p_hat and Delta2_C_p_hat.
Store(s, name, p, v, by) ==
    [s EXCEPT !.states[name][p] = v,
              !.written = @ \cup {<<name, p, by>>}]

Call(s, p, callee, size) == [s EXCEPT !.calls = Append(@, <<p, callee, size>>)]

\* This variant solves at the step the diagnostic converged at, if it did.
SolveOrderConverged(cfg, convergence_results) ==
    IF convergence_results.converged
    THEN convergence_results.converged_k
    ELSE cfg.k

\* The truncation order of every Neumann solve of the simulation
\* (k = config['k'], line 57; k = sim['k'], line 160).
SolveOrder(cfg, convergence_results) == cfg.k

\* ------------------------------------------------ configuration and data
\* (n_heavy, n_medium, n_light): two partitions of n, one a sector too many,
\* one a sector short.
Partitions == {<<1, N - 1, 0>>, <<0, 1, N - 1>>, <<1, N - 1, 1>>, <<0, N - 1, 0>>}

\* (g_a, tau, shock_sigma, shock_persist, mu_heavy)
Policies ==
    {<<0, 0, 0, 1, 1>>, <<4095, 1, 0, 1, 0>>, <<0, 1, 1, 0, 0>>, <<4095, 0, 1, 0, 1>>}

\* (neumann_max_k, neumann_tolerance)
DiagSettings == {<<MaxKmax, 1>>, <<1, 0>>}

Configs ==
    {[n |-> N, k |-> k, T_plan |-> T_plan, W |-> W,
      n_heavy |-> part[1], n_medium |-> part[2], n_light |-> part[3],
      delta_heavy_min |-> 12, delta_heavy_max |-> 12,
      delta_medium_min |-> 0, delta_medium_max |-> 12,
      delta_light_min |-> 0, delta_light_max |-> 0,
      heavy_diag_min |-> 2, heavy_diag_max |-> 2,
      medium_diag_min |-> 1, medium_diag_max |-> 1,
      light_diag_min |-> 1, light_diag_max |-> 1,
      mu_heavy |-> pol[5], mu_medium |-> 0, mu_light |-> 0,
      g_a |-> pol[1], tau |-> pol[2], b |-> 0,
      shock_sigma |-> pol[3], shock_persist |-> pol[4],
      initial_capacity_buffer |-> 2,
      neumann_max_k |-> ds[1], neumann_tolerance |-> ds[2]] :
        k \in {1, MaxK}, T_plan \in 1..MaxTPlan, W \in 1..MaxW,
        part \in Partitions, pol \in Policies, ds \in DiagSettings}

\* data_loader.compute_value_added_per_unit: nan and inf become 0.
compute_value_added_per_unit(value_added, total_output) ==
    [i \in 1..Len(value_added) |->
        LET q == Div(value_added[i], total_output[i])
        IN  IF q = NaN THEN 0 ELSE q]

\* What load_all_data returns: an input-output matrix whose Neumann series
\* converges (zero, or nilpotent), and value data.
Datas ==
    {[A |-> A, value_added |-> Ramp(N, 8, 6), total_output |-> Ramp(N, 8, 6),
      va_per_unit |-> compute_value_added_per_unit(Ramp(N, 8, 6), Ramp(N, 8, 6)),
      C_household |-> C_household, I_investment |-> Ramp(N, 2, 1),
      G_government |-> Ramp(N, 1, 1)] :
        A \in {Band(N, 0, 0, 0), Band(N, 0, 1, 0)},
        C_household \in {Ramp(N, 4, 2), Ramp(N, 3, 0)}}

\* ------------------------------------------------------ the period's equations
\* This variant carries the whole stock over: K[t-1] + I[t-1].
CapitalRollUndepreciated(n, Delta, K_prev, I_prev) == VAdd(K_prev, I_prev)

\* K[t] = (I - Delta) K[t-1] + I[t-1]  (lines 103 and 180)
CapitalRoll(n, Delta, K_prev, I_prev) ==
    VAdd(MatVec(MatSub(Eye(n), Delta), K_prev), I_prev)

\* This variant takes the growth alone: g * G[t-1].
GovGrowthIncrement(g, G_prev) == Scale(g, G_prev)

\* G[t] = (1+g) G[t-1]  (line 188)
GovGrowth(g, G_prev) == Scale(1 + g, G_prev)

\* This variant rations by the larger of the two.
RationingByMaximum(Delta_K_e, K_u) ==
    Vec([i \in 1..Len(K_u) |->
        IF Delta_K_e[i] = NaN \/ K_u[i] = NaN THEN NaN
        ELSE IF Delta_K_e[i] > K_u[i] THEN 0 - Delta_K_e[i] ELSE 0 - K_u[i]])

\* Delta_K_u = -np.minimum(Delta_K_e, K_u[t])  (line 220)
Rationing(Delta_K_e, K_u) == VNeg(VMinimum(Delta_K_e, K_u))

\* This variant invests the forecast expansion as it is, unrationed.
InvestmentUnrationed(Delta, K, Delta_K_e, Delta_K_u) ==
    VAdd(MatVec(Delta, K), Delta_K_e)

\* I[t] = Delta K[t] + (Delta_K_e + Delta_K_u)  (line 222)
Investment(Delta, K, Delta_K_e, Delta_K_u) ==
    VAdd(MatVec(Delta, K), VAdd(Delta_K_e, Delta_K_u))

\* This variant leaves government expenditure out of final demand.
FinalDemandWithoutG(C_p, I, G) == VAdd(C_p, I)

\* F[t] = C_p[t] + I[t] + G[t]  (line 224)
FinalDemand(C_p, I, G) == VAdd(VAdd(C_p, I), G)

\* This variant taxes at the rate tau.
TaxesAtTau(tau, P0, I, G) == Dot(Scale(tau, P0), VAdd(I, G))

\* Taxes = (1 - tau)*P0 @ (I[t] + G[t])  (line 228)
Taxes(tau, P0, I, G) == Dot(Scale(1 - tau, P0), VAdd(I, G))

\* P0 @ (G[t] + I[t]) - Taxes  (line 248)
Deficit(P0, G, I, taxes) == Sub(Dot(P0, VAdd(G, I)), taxes)

\* -------------------------------------------------- initialize_simulation
\* Lines 56-147 with the draws delta_vec and all_diag, once no line has raised.
InitialSim(cfg, d, convergence_results, delta_vec, all_diag) ==
    LET n     == cfg.n
        k     == SolveOrder(cfg, convergence_results)
        W     == cfg.W
        T     == cfg.T_plan + W
        Delta == Diag(delta_vec)
        B     == Diag(all_diag)
        A     == d.A
        wL    == d.va_per_unit
        P0_real == neumann(Transpose(A), wL, k)
        P0    == P0_real
        buf   == cfg.initial_capacity_buffer
        C_0   == VDiv(d.C_household, P0)
        G0    == VDiv(d.G_government, P0)
        K0a   == Scale(buf, MatVec(B, VDiv(d.total_output, P0)))
        I0    == MatVec(Delta, K0a)
        X0    == neumann(A, VAdd(VAdd(C_0, I0), G0), k)
        X_max == Scale(buf, X0)
        AD0   == VAdd(VAdd(C_0, I0), G0)
        K0    == MatVec(B, X_max)
        U0    == VSub(X_max, X0)
        s0 == [states |-> initialize_state_arrays(T, n), written |-> {},
               Delta |-> Delta, B |-> B, B_inv |-> Inv(all_diag), A |-> A,
               P0 |-> P0, P0_real |-> P0_real, wL |-> wL,
               alpha |-> Shares(d.C_household, Sum(d.C_household)),
               alpha_shock |-> Zeros(n),
               alpha_prev |-> Shares(d.C_household, Sum(d.C_household)),
               calls |-> <<>>,
               hat |-> [Delta_C_p_hat |-> Zeros(n), Delta2_C_p_hat |-> Zeros(n)],
               epsilon |-> VNeg(Ones(n)), epsilon_measured |-> VNeg(Ones(n)),
               mu |-> create_mu_vector(cfg),
               g |-> MonthlyRate(cfg.g_a), T |-> T, W |-> W, n |-> n, k |-> k,
               Delta_C_p_hist |-> <<>>, Delta2_C_p_hist |-> <<>>,
               Delta_P_last |-> Zeros(n), Delta_K_e_last |-> Zeros(n),
               Debt |-> 0, Y_income_prev |-> Sum(d.C_household),
               Delta_C_p_forecaster |-> AR1Forecaster(W),
               Delta2_C_p_forecaster |-> AR1Forecaster(W)]
        s1  == Store(s0, "C_0", 0, C_0, 0)
        s2  == Store(s1, "C", 0, C_0, 0)
        s3  == Store(s2, "C_p", 0, C_0, 0)
        s4  == Store(s3, "G", 0, G0, 0)
        s5  == Store(s4, "K", 0, K0a, 0)
        s6  == Store(s5, "I", 0, I0, 0)
        s7  == Store(s6, "X", 0, X0, 0)
        s8  == Store(s7, "K_e", 0, MatVec(B, X0), 0)
        s9  == Store(s8, "X_max", 0, X_max, 0)
        s10 == Store(s9, "AD", 0, AD0, 0)
        s11 == Store(s10, "F", 0, AD0, 0)
        s12 == Store(s11, "F_c", 0, MatVec(MatSub(Eye(n), A), X_max), 0)
        s13 == Store(s12, "K", 0, K0, 0)
        s14 == Store(s13, "U", 0, U0, 0)
        s15 == Store(s14, "K_u", 0, MatVec(B, U0), 0)
    IN  Store(s15, "K", 1, CapitalRoll(n, Delta, K0, I0), 0)

\* The exception initialize_simulation raises, "none" if it returns:
\* np.linalg.inv of a singular B (line 140 of model.py), B @ vector on
\* mismatched shapes (line 90), states['K'][1] with a single period (line 103).
InitializeRaises(cfg, all_diag) ==
    IF \E i \in 1..Len(all_diag) : all_diag[i] = 0 THEN "LinAlgError"
    ELSE IF Cols(Diag(all_diag)) # cfg.n THEN "ValueError: shapes not aligned"
    ELSE IF cfg.T_plan + cfg.W < 2 THEN "IndexError"
    ELSE "none"

\* ---------------------------------------------------------- run_simulation
\* This variant starts the loop a period late.
FirstPeriodSkipped(T) == 2

\* for t in range(1, T): the first period.
FirstPeriod(T) == 1

Last(seq) == seq[Len(seq)]

\* Lines 176-201 of period p with the draw eps: capital, planned consumption,
\* government, alpha, the two histories and the two forecasters' observations.
Lines176To201(s, cfg, p, eps) ==
    LET st       == s.states
        K_e_last == MatVec(s.B, st["X"][p - 1])
        K_e_hat  == VAdd(K_e_last, s.Delta_K_e_last)
        K        == CapitalRoll(s.n, s.Delta, st["K"][p - 1], st["I"][p - 1])
        K_u      == VSub(Scale(1 - cfg.b, K), K_e_hat)
        Delta_C_p_last ==
            VMul(VNeg(st["C_p"][p - 1]),
                 VDiv(VMul(s.epsilon_measured, s.Delta_P_last), s.P0))
        C_p      == VAdd(st["C_p"][p - 1], Delta_C_p_last)
        G        == GovGrowth(s.g, st["G"][p - 1])
        ua       == update_alpha(s.alpha, s.alpha_shock, eps,
                                 cfg.shock_persist, s.mu)
        hist     == Append(s.Delta_C_p_hist, Delta_C_p_last)
        hist2    == IF Len(hist) > 1
                    THEN Append(s.Delta2_C_p_hist,
                                VSub(hist[Len(hist)], hist[Len(hist) - 1]))
                    ELSE s.Delta2_C_p_hist
        f1       == add_observation(s.Delta_C_p_forecaster, Delta_C_p_last)
        f2       == IF Len(hist2) > 0
                    THEN add_observation(s.Delta2_C_p_forecaster, Last(hist2))
                    ELSE s.Delta2_C_p_forecaster
        s1 == Store(s, "K", p, K, p)
        s2 == Store(s1, "K_u", p, K_u, p)
        s3 == Store(s2, "C_p", p, C_p, p)
        s4 == Store(s3, "G", p, G, p)
        s5 == Call(s4, p, "update_alpha", 0)
    IN  [sim |-> [s5 EXCEPT !.alpha = ua[1], !.alpha_shock = ua[2],
                            !.alpha_prev = ua[3],
                            !.Delta_C_p_hist = hist, !.Delta2_C_p_hist = hist2,
                            !.Delta_C_p_forecaster = f1,
                            !.Delta2_C_p_forecaster = f2],
         Delta_C_p_last |-> Delta_C_p_last]

\* This variant ends the warm-up one entry early.
WarmingUpOneShort(s) == Len(s.Delta_C_p_hist) < s.W - 1

\* Line 203: the warm-up guard.
WarmingUp(s) == Len(s.Delta_C_p_hist) < s.W

\* Line 207.
FitFirst(s, p) ==
    [Call(s, p, "Delta_C_p_forecaster.fit", Len(s.Delta_C_p_forecaster.history))
        EXCEPT !.Delta_C_p_forecaster = fit(@)]

\* Line 208.
FitSecond(s, p) ==
    [Call(s, p, "Delta2_C_p_forecaster.fit", Len(s.Delta2_C_p_forecaster.history))
        EXCEPT !.Delta2_C_p_forecaster = fit(@)]

\* Lines 207-208.
FitBoth(s, p) == FitSecond(FitFirst(s, p), p)

\* This variant asks the second forecaster with one second difference.
AsksSecondWithOne(s) == Len(s.Delta2_C_p_hist) >= 1

\* Line 212: the second forecaster is asked only with two second differences.
AsksSecond(s) == Len(s.Delta2_C_p_hist) >= 2

\* Lines 210-214 on the fitted sim: a predict call raises ValueError.
PredictRaises(s) ==
    \/ NotFitted(s.Delta_C_p_forecaster)
    \/ AsksSecond(s) /\ NotFitted(s.Delta2_C_p_forecaster)

\* Lines 210-214 on the fitted sim: the predict calls made, up to the one that
\* raises.
PredictCalls(s, p) ==
    LET s1 == Call(s, p, "Delta_C_p_forecaster.predict",
                   Len(s.Delta_C_p_forecaster.history))
    IN  IF WarmingUp(s) THEN s
        ELSE IF AsksSecond(s) /\ ~NotFitted(s.Delta_C_p_forecaster)
        THEN Call(s1, p, "Delta2_C_p_forecaster.predict",
                  Len(s.Delta2_C_p_forecaster.history))
        ELSE s1

\* np.linalg.lstsq on a matrix that holds a non-finite entry: LAPACK's SVD may
\* fail to converge, and lstsq then raises LinAlgError; other builds return
\* nan. The matrix of component i holds history[:-1, i].
LstsqMayRaise(f) ==
    /\ ~TooFewPoints(f)
    /\ \E j \in 1..(Len(f.history) - 1), i \in 1..Len(f.history[1]) :
          IsNaN(f.history[j][i])

\* Lines 203-216: the forecasts of the period, on the sim after line 201
\* (warming up) or after the fits (line 208).
Forecasts(s, Delta_C_p_last) ==
    IF WarmingUp(s)
    THEN [Delta_C_p_hat |-> Delta_C_p_last, Delta2_C_p_hat |-> Zeros(s.n)]
    ELSE [Delta_C_p_hat |-> predict(s.Delta_C_p_forecaster, Delta_C_p_last, 1),
          Delta2_C_p_hat |->
              IF AsksSecond(s)
              THEN predict(s.Delta2_C_p_forecaster, Last(s.Delta2_C_p_hist), 1)
              ELSE Zeros(s.n)]

\* This variant adds in place: P0 += Delta_P.
PriceLevelInPlace(P0, Delta_P) ==
    [P |-> VAdd(P0, Delta_P), P0 |-> VAdd(P0, Delta_P)]

\* Line 238: P = P0 + Delta_P binds a new array to P; the array sim['P0']
\* holds what it held.
PriceLevel(P0, Delta_P) == [P |-> VAdd(P0, Delta_P), P0 |-> P0]

\* Lines 218-252 of period p.
Lines218To252(s, cfg, p, hat) ==
    LET st  == s.states
        A   == s.A
        B   == s.B
        k   == s.k
        g   == s.g
        P0  == s.P0
        G   == st["G"][p]
        C_p == st["C_p"][p]
        Delta_K_e ==
            MatVec(B, neumann(A,
                VAdd(VAdd(hat.Delta_C_p_hat, Scale(g, G)),
                     MatVec(B, neumann(A,
                         VAdd(hat.Delta2_C_p_hat, Scale(g^2, G)), k))), k))
        Delta_K_u == Rationing(Delta_K_e, st["K_u"][p])
        I   == Investment(s.Delta, st["K"][p], Delta_K_e, Delta_K_u)
        F   == FinalDemand(C_p, I, G)
        X   == neumann(A, F, k)
        taxes    == Taxes(cfg.tau, P0, I, G)
        Y_income == Sub(Dot(s.wL, X), taxes)
        C_0 == SharesTimesOver(s.alpha, Y_income, P0)
        ED  == VSub(C_0, C_p)
        Delta_P == VMul(P0, VDiv(VNeg(ED), VMul(s.epsilon, C_0)))
        pl  == PriceLevel(P0, Delta_P)
        P   == pl.P
        C   == SharesTimesOver(s.alpha, Y_income, P)
        X_max == InvVec(s.B_inv, st["K"][p])
        s1 == Store(s, "I", p, I, p)
        s2 == Store(s1, "F", p, F, p)
        s3 == Store(s2, "X", p, X, p)
        s4 == Store(s3, "C_0", p, C_0, p)
        s5 == Store(s4, "ED", p, ED, p)
        s6 == Store(s5, "C", p, C, p)
        s7 == Store(s6, "AD", p, VAdd(VAdd(C, I), G), p)
        s8 == Store(s7, "X_max", p, X_max, p)
        s9 == Store(s8, "F_c", p, MatVec(MatSub(Eye(s.n), A), X_max), p)
    IN  [s9 EXCEPT !.P0 = pl.P0,
                   !.hat = hat,
                   !.Debt = Add(@, Deficit(P0, G, I, taxes)),
                   !.Delta_K_e_last = Delta_K_e,
                   !.Delta_P_last = Delta_P]

\* ------------------------------------------------------- compute_results
Mean(seq) == Div(Sum(seq), Len(seq))

Abs(a) == IF a = NaN THEN NaN ELSE IF a < 0 THEN 0 - a ELSE a

\* np.sum(P0_real * states[name], axis=1)
Valued(s, name) == [p \in 0..(s.T - 1) |-> Dot(s.P0_real, s.states[name][p])]

\* seq[lo:hi] of a series indexed from 0, as a sequence.
Slice(series, T, lo, hi) ==
    [j \in 1..(Min2(hi, T) - Min2(lo, Min2(hi, T))) |-> series[lo + j - 1]]

\* The dict compute_results returns, but for Growth, a fractional power.
compute_results(s) ==
    LET T        == s.T
        GDP_real == Valued(s, "F")
        Capacity == Valued(s, "F_c")
        C_plan_value == Valued(s, "C_p")
        C_value  == Valued(s, "C")
        Output_Gap ==
            [p \in 0..(T - 1) |->
                Div(Mul(100, Sub(GDP_real[p], Capacity[p])), Capacity[p])]
        Final    == Dot(s.P0_real, s.states["F"][T - 1])
    IN  [GDP_real |-> GDP_real, Capacity |-> Capacity,
         C_plan_value |-> C_plan_value, C_value |-> C_value,
         G_value |-> Valued(s, "G"), AD_value |-> Valued(s, "AD"),
         I_value |-> Valued(s, "I"), Output_Gap |-> Output_Gap,
         Capacity_Utilization |->
            [p \in 0..(T - 1) |-> Div(Mul(100, GDP_real[p]), Capacity[p])],
         excess_demand |->
            Mean([j \in 1..T |->
                Div(Mul(100, Sub(C_value[j - 1], C_plan_value[j - 1])),
                    C_value[j - 1])]),
         mean_abs_output_gap |->
            Mean([j \in DOMAIN Slice(Output_Gap, T, 12, 72) |->
                Abs(Slice(Output_Gap, T, 12, 72)[j])]),
         Debt_to_GDP_ratio |-> Div(Mul(s.Debt, 100), Final),
         T |-> T, W |-> s.W]

\* ------------------------------------------------------------------ main
\* Lines 393-401: whatever the diagnostic reports, initialization is next.
AfterDiagnostic(convergence_results) == "initialize"

MainInit ==
    /\ pc = "diagnostic"
    /\ config \in Configs
    /\ data \in Datas
    /\ conv = Unbound
    /\ sim = Unbound
    /\ t = 0
    /\ results = Unbound
    /\ exc = "none"

\* Lines 393-399: the diagnostic on C_household / P0, and its plot.
TestConvergence ==
    /\ pc = "diagnostic"
    /\ conv' = test_neumann_convergence(
                  data.A,
                  VDiv(data.C_household,
                       neumann(Transpose(data.A), data.va_per_unit, config.k)),
                  config.neumann_max_k, config.neumann_tolerance)
    /\ pc' = AfterDiagnostic(conv')
    /\ UNCHANGED <<nm, dg, fc, config, data, sim, t, results, exc>>

\* Line 401, and the entry of run_simulation's loop.
Initialize ==
    /\ pc = "initialize"
    /\ \E delta_vec \in DeltaVecs(config), all_diag \in BDiags(config) :
        LET raises == InitializeRaises(config, all_diag)
        IN  IF raises # "none"
            THEN /\ pc' = "failed"
                 /\ exc' = raises
                 /\ UNCHANGED <<sim, t>>
            ELSE /\ sim' = InitialSim(config, data, conv, delta_vec, all_diag)
                 /\ t' = FirstPeriod(sim'.T)
                 /\ pc' = "run"
                 /\ UNCHANGED exc
    /\ UNCHANGED <<nm, dg, fc, config, data, conv, results>>

\* One period of the loop that runs to line 252.
Step ==
    /\ pc = "run"
    /\ t < sim.T
    /\ \E eps \in NormalDraws(config.shock_sigma, sim.n) :
        LET a  == Lines176To201(sim, config, t, eps)
            s1 == IF WarmingUp(a.sim) THEN a.sim ELSE FitBoth(a.sim, t)
        IN  /\ WarmingUp(a.sim) \/ ~PredictRaises(s1)
            /\ sim' = Lines218To252(PredictCalls(s1, t), config, t,
                                    Forecasts(s1, a.Delta_C_p_last))
    /\ t' = t + 1
    /\ UNCHANGED <<nm, dg, fc, pc, config, data, conv, results, exc>>

\* One period that ends at line 210 or 214: predict raises ValueError.
StepNotFitted ==
    /\ pc = "run"
    /\ t < sim.T
    /\ \E eps \in NormalDraws(config.shock_sigma, sim.n) :
        LET a  == Lines176To201(sim, config, t, eps)
            s1 == FitBoth(a.sim, t)
        IN  /\ ~WarmingUp(a.sim)
            /\ PredictRaises(s1)
            /\ sim' = PredictCalls(s1, t)
    /\ pc' = "failed"
    /\ exc' = "ValueError: Model not fitted yet"
    /\ UNCHANGED <<nm, dg, fc, config, data, conv, t, results>>

\* One period that ends at line 207 or 208: lstsq raises LinAlgError.
StepLstsqFails ==
    /\ pc = "run"
    /\ t < sim.T
    /\ \E eps \in NormalDraws(config.shock_sigma, sim.n) :
        LET a == Lines176To201(sim, config, t, eps)
        IN  /\ ~WarmingUp(a.sim)
            /\ \/ /\ LstsqMayRaise(a.sim.Delta_C_p_forecaster)
                  /\ sim' = Call(a.sim, t, "Delta_C_p_forecaster.fit",
                                 Len(a.sim.Delta_C_p_forecaster.history))
               \/ /\ LstsqMayRaise(a.sim.Delta2_C_p_forecaster)
                  /\ sim' = Call(FitFirst(a.sim, t), t, "Delta2_C_p_forecaster.fit",
                                 Len(a.sim.Delta2_C_p_forecaster.history))
    /\ pc' = "failed"
    /\ exc' = "LinAlgError"
    /\ UNCHANGED <<nm, dg, fc, config, data, conv, t, results>>

\* The loop is exhausted: run_simulation returns (line 258).
LoopExit ==
    /\ pc = "run"
    /\ ~(t < sim.T)
    /\ pc' = "results"
    /\ UNCHANGED <<nm, dg, fc, config, data, conv, sim, t, results, exc>>

\* Line 405.
ComputeResults ==
    /\ pc = "results"
    /\ results' = compute_results(sim)
    /\ pc' = "done"
    /\ UNCHANGED <<nm, dg, fc, config, data, conv, sim, t, exc>>

Init == MainInit /\ nm = Unbound /\ dg = Unbound /\ fc = Unbound

Next ==
    \/ TestConvergence
    \/ Initialize
    \/ Step
    \/ StepNotFitted
    \/ StepLstsqFails
    \/ LoopExit
    \/ ComputeResults

Spec == Init /\ [][Next]_vars

\* ================================================================ claims
MatMul(P, Q) ==
    [i \in 1..Len(P) |-> [j \in 1..Len(P) |->
        Sum([l \in 1..Len(P) |-> Mul(P[i][l], Q[l][j])])]]

RECURSIVE MatPow(_, _)
MatPow(A, j) == IF j = 0 THEN Eye(Len(A)) ELSE MatMul(A, MatPow(A, j - 1))

\* v + A v + ... + A^(k-1) v, from the powers of A.
RECURSIVE PowerSum(_, _, _)
PowerSum(A, v, k) ==
    IF k = 0 THEN Zeros(Len(v))
    ELSE VAdd(PowerSum(A, v, k - 1), MatVec(MatPow(A, k - 1), v))

Min(a, b) == IF a < b THEN a ELSE b

LastN(seq, m) == SubSeq(seq, Len(seq) - m + 1, Len(seq))

\* C2: after m add_observation calls the history is the last min(m, W)
\* observations in arrival order, so it never holds more than W.
C2_HistoryIsLastWindow ==
    fc.pc = "live" =>
        LET W == fc.obj.window_size
            m == Len(fc.added)
        IN  /\ fc.obj.history = LastN(fc.added, Min(m, W))
            /\ Len(fc.obj.history) <= W

\* C2's case: more observations than the window holds, some evicted.
C2_Witness ==
    /\ fc.pc = "live"
    /\ fc.obj.window_size >= 2
    /\ Len(fc.added) >= fc.obj.window_size + 2
    /\ fc.added[1] # fc.added[Len(fc.added) - fc.obj.window_size + 1]

\* C3: predict and predict_with_uncertainty on a model whose is_fitted is
\* false raise ValueError and leave the object as it was.
C3_UnfittedPredictRaises ==
    [][(fc.pc = "live" /\ ~fc.obj.is_fitted
        /\ fc'.op \in {"predict", "predict_with_uncertainty"})
       => (fc'.raised = "ValueError" /\ fc'.obj = fc.obj)]_vars

\* C3's case: predict_with_uncertainty has raised on a model that holds one
\* observation.
C3_Witness ==
    /\ fc.pc = "live"
    /\ fc.op = "predict_with_uncertainty"
    /\ fc.raised = "ValueError"
    /\ Len(fc.obj.history) = 1

C5_NeumannPowerSum ==
    /\ nm.pc # "idle" => (nm.A = nm.A_arg /\ nm.v = nm.v_arg)
    /\ nm.pc = "returned" =>
        /\ nm.x = PowerSum(nm.A_arg, nm.v_arg, nm.k)
        /\ nm.products = nm.k - 1
        /\ nm.k = 1 => nm.x = nm.v_arg

\* C5's case: a call with k = 3 has returned more than v.
C5_Witness ==
    /\ nm.pc = "returned"
    /\ nm.k = 3
    /\ nm.x # nm.v_arg
    /\ nm.x # VAdd(nm.v_arg, MatVec(nm.A_arg, nm.v_arg))

\* The steps among the first m whose error is below tolerance*100.
Below(m) ==
    {j \in 1..m : Less(dg.s.errors[j], Mul(dg.tolerance, 100))}

\* C6: with k_max >= 1 every one of the k_max steps runs and records its error;
\* converged holds iff some step's error is below tolerance*100, converged_k is
\* the first such step (None without one), and no later step resets them.
C6_ConvergenceDeclaredOnce ==
    (dg.pc \in {"loop", "returned"} /\ dg.k_max >= 1) =>
        LET m == Len(dg.s.errors)
        IN  /\ m = dg.k - 1
            /\ \A j \in 1..m :
                  dg.s.errors[j] =
                      RelError(MatVec(MatPow(dg.A, j), dg.test_vector),
                               Norm(dg.test_vector))
            /\ dg.s.converged <=> Below(m) # {}
            /\ dg.s.converged_k =
                  IF Below(m) = {} THEN NoStep
                  ELSE CHOOSE j \in Below(m) : \A l \in Below(m) : j <= l
            /\ dg.pc = "returned" =>
                  /\ m = dg.k_max
                  /\ dg.result.errors = dg.s.errors
                  /\ dg.result.converged = dg.s.converged
                  /\ dg.result.converged_k = dg.s.converged_k

\* C6's case: declared at the first step, the error of the last step is above
\* the threshold again, and the call has returned.
C6_Witness ==
    /\ dg.pc = "returned"
    /\ dg.result.converged
    /\ dg.result.converged_k = 1
    /\ dg.k_max >= 2
    /\ ~Less(dg.result.errors[dg.k_max], Mul(dg.tolerance, 100))

\* C1 (as stated; the program violates it): run_simulation never calls predict
\* on a forecaster that is not fitted, for every horizon T and window W, so
\* the run never ends with predict's ValueError "Model not fitted yet".
C1_NeverPredictsUnfitted ==
    ~(pc = "failed" /\ exc = "ValueError: Model not fitted yet")

\* The periods whose step has run to its end.
Stepped == IF pc \in {"run", "failed"} THEN 1..(t - 1) ELSE 1..(sim.T - 1)

\* C7: the diagnostic runs once, before initialization, and whatever it
\* reports the run goes on to initialize_simulation and run_simulation; no
\* failure of the run comes from the diagnostic, and every Neumann solve of the
\* simulation is truncated at the configured k, never at converged_k: sim's k
\* is config's k, P0 is the solve of order k, and every period's recorded
\* output, period 0 included, is neumann(A, F, k).
C7_DiagnosticNeverAltersRun ==
    /\ (pc = "diagnostic") = (conv = Unbound)
    /\ pc = "failed" =>
          exc \in {"ValueError: shapes not aligned",
                   "ValueError: Model not fitted yet", "LinAlgError"}
    /\ sim # Unbound =>
          /\ sim.k = config.k
          /\ sim.P0 = neumann(Transpose(data.A), data.va_per_unit, config.k)
          /\ \A p \in {0} \cup Stepped :
                sim.states["X"][p] = neumann(data.A, sim.states["F"][p], config.k)

\* C7's case: the diagnostic did not converge, the configured k is not 1,
\* and the run is complete over at least two periods of nontrivial solves.
C7_Witness ==
    /\ pc = "done"
    /\ ~conv.converged
    /\ config.k # 1
    /\ sim.T >= 3
    /\ data.A # Band(N, 0, 0, 0)
    /\ sim.states["X"][sim.T - 1] # sim.states["F"][sim.T - 1]

\* C8: if n_heavy + n_medium + n_light # n, the run fails with an error
\* before the loop's first period: nothing is initialized, no period is
\* stepped, and the run never reaches the loop, the results or the end.
C8_PartitionMismatchFailsFast ==
    config.n_heavy + config.n_medium + config.n_light # config.n =>
        /\ pc \in {"diagnostic", "initialize", "failed"}
        /\ sim = Unbound
        /\ t = 0
        /\ results = Unbound
        /\ pc = "failed" => exc = "ValueError: shapes not aligned"

\* C8's case: a partition that does not sum to n, and the run has failed.
C8_Witness ==
    /\ config.n_heavy + config.n_medium + config.n_light # config.n
    /\ pc = "failed"
    /\ exc = "ValueError: shapes not aligned"

\* The series the step assigns (lines 180-246).
StepSeries == SeriesNames \ {"U", "K_e"}

\* C9 (as stated; the program violates it): once run_simulation has returned,
\* each of the fifteen series has its entry for every period 1..T-1 written by
\* that period's step.
C9_AllFifteenWritten ==
    pc \in {"results", "done"} =>
        \A name \in SeriesNames, p \in 1..(sim.T - 1) :
            <<name, p, p>> \in sim.written

\* C9 (amended): once run_simulation has returned, each of the thirteen series
\* X, X_max, K, I, C_p, C_0, C, F, ED, K_u, AD, G, F_c has its entry for every
\* period 1..T-1 written by that period's step; U and K_e are written for
\* period 0 only, by initialize_simulation, and stay zero afterwards.
C9_ThirteenWritten ==
    pc \in {"results", "done"} =>
        /\ \A name \in StepSeries, p \in 1..(sim.T - 1) :
              <<name, p, p>> \in sim.written
        /\ \A name \in {"U", "K_e"} :
              /\ \A w \in sim.written : w[1] = name => w[2] = 0 /\ w[3] = 0
              /\ \A p \in 1..(sim.T - 1) : sim.states[name][p] = Zeros(sim.n)

\* C9's case: run_simulation has returned from a loop of at least two periods.
C9_Witness ==
    /\ pc = "done"
    /\ sim.T >= 3
    /\ <<"X", sim.T - 1, sim.T - 1>> \in sim.written
    /\ <<"U", 0, 0>> \in sim.written

\* P0.(G[p]+I[p]) - Taxes_p with Taxes_p = (1-tau)*P0.(I[p]+G[p]), on the
\* entries period p recorded.
PeriodDeficit(s, tau, p) ==
    Sub(Dot(s.P0, VAdd(s.states["G"][p], s.states["I"][p])),
        Dot(Scale(1 - tau, s.P0), VAdd(s.states["I"][p], s.states["G"][p])))

\* C10: Debt is 0 after initialization; a step that completes period t changes
\* Debt by exactly P0.(G[t]+I[t]) - Taxes_t with
\* Taxes_t = (1-tau)*P0.(I[t]+G[t]); no other operation changes Debt.
C10_DebtAccumulatesDeficit ==
    [][/\ (sim = Unbound /\ sim' # Unbound) => sim'.Debt = 0
       /\ (sim # Unbound /\ t' = t + 1) =>
              sim'.Debt = Add(sim.Debt, PeriodDeficit(sim', config.tau, t))
       /\ (sim # Unbound /\ t' = t) => sim'.Debt = sim.Debt]_vars

\* C10's case: a completed run of at least two periods whose Debt has moved.
C10_Witness ==
    /\ pc = "done"
    /\ sim.T >= 3
    /\ sim.Debt # NaN
    /\ sim.Debt # 0
    /\ sim.Debt # PeriodDeficit(sim, config.tau, 1)

\* The last period whose step has run to its end (0: none yet).
LastStepped == IF pc \in {"run", "failed"} THEN t - 1 ELSE sim.T - 1

\* K_u[p] + Delta_K_u for the period p stepped last, whose Delta_K_e the run
\* carries as Delta_K_e_last.
AfterRationing(s, p) ==
    VAdd(s.states["K_u"][p], Rationing(s.Delta_K_e_last, s.states["K_u"][p]))

C12_FinalDemandAndOutput ==
    sim # Unbound =>
        \A p \in {0} \cup Stepped :
            /\ sim.states["F"][p] =
                  VAdd(VAdd(sim.states["C_p"][p], sim.states["I"][p]),
                       sim.states["G"][p])
            /\ sim.states["X"][p] = neumann(sim.A, sim.states["F"][p], sim.k)

\* C12's case: a completed run of at least two stepped periods whose last
\* period has nonzero consumption, investment and government demand, all
\* finite, and an output that differs from final demand.
C12_Witness ==
    /\ pc = "done"
    /\ sim.T >= 3
    /\ \A name \in {"C_p", "I", "G", "F", "X"} :
          /\ sim.states[name][sim.T - 1] # Zeros(sim.n)
          /\ \A i \in 1..sim.n : sim.states[name][sim.T - 1][i] # NaN
    /\ sim.states["X"][sim.T - 1] # sim.states["F"][sim.T - 1]
    /\ sim.states["F"][sim.T - 1] # sim.states["F"][0]

\* The entries of sim that no period assigns.
FrozenEntries ==
    {"P0", "P0_real", "A", "B", "B_inv", "Delta", "mu", "epsilon",
     "epsilon_measured", "wL", "g", "T", "W", "n", "k", "Y_income_prev"}

\* C13: P0 and P0_real are equal after initialization, and no period of
\* run_simulation and no call of compute_results modifies them, nor A, B,
\* B_inv, Delta, mu and epsilon (nor any other entry of sim but the series,
\* alpha, alpha_shock, the carry-over vectors, Debt, the histories and the
\* forecasters).
C13_PricesAndMatricesFrozen ==
    [][/\ sim' # Unbound => sim'.P0 = sim'.P0_real
       /\ sim # Unbound =>
             \A name \in FrozenEntries : sim'[name] = sim[name]]_vars

\* C13's case: a completed run of at least two stepped periods in which
\* alpha, the carried Delta_P and Debt have moved, and results are computed.
C13_Witness ==
    /\ pc = "done"
    /\ results # Unbound
    /\ sim.T >= 3
    /\ sim.alpha # Shares(data.C_household, Sum(data.C_household))
    /\ sim.Delta_P_last # Zeros(sim.n)
    /\ \A i \in 1..sim.n : sim.Delta_P_last[i] # NaN
    /\ sim.Debt # 0

\* C14: in every stepped period t >= 1, G[t] = (1 + g) * G[t-1]; with zero
\* annual growth (g_a = 0, so g = 0) the series is stationary, G[t] = G[0]
\* for every period written so far.
C14_GovernmentGrowth ==
    sim # Unbound =>
        /\ config.g_a = 0 => sim.g = 0
        /\ \A p \in Stepped :
              /\ sim.states["G"][p] = Scale(1 + sim.g, sim.states["G"][p - 1])
              /\ config.g_a = 0 => sim.states["G"][p] = sim.states["G"][0]

\* C14's case: a completed run of at least two stepped periods with zero
\* growth and a government demand that is finite and not zero.
C14_Witness ==
    /\ pc = "done"
    /\ sim.T >= 3
    /\ config.g_a = 0
    /\ sim.states["G"][0] # Zeros(sim.n)
    /\ \A i \in 1..sim.n : sim.states["G"][0][i] # NaN
    /\ sim.states["G"][sim.T - 1] = sim.states["G"][0]

\* Shares that are non-negative and sum to 1.
OnSimplex(a) ==
    /\ a.den > 0
    /\ \A i \in 1..Len(a.num) : a.num[i] >= 0
    /\ Sum(a.num) = a.den

\* C15: alpha is non-negative and sums to 1 after initialization and after
\* the update of every period, however many periods have run; and the array
\* passed to update_alpha as alpha_prev holds after the call what it held
\* before it.
C15_AlphaStaysOnSimplex ==
    [][/\ sim' # Unbound => OnSimplex(sim'.alpha)
       /\ (sim # Unbound /\ sim' # Unbound /\ t' = t + 1) =>
             sim'.alpha_prev = sim.alpha]_vars

\* C15's case: alpha after the updates of at least two periods, moved away
\* from the initial shares, with every sector's share positive.
C15_Witness ==
    /\ pc = "done"
    /\ sim.T >= 3
    /\ sim.alpha # Shares(data.C_household, Sum(data.C_household))
    /\ \A i \in 1..sim.n : sim.alpha.num[i] > 0
    /\ OnSimplex(sim.alpha)
    /\ sim.alpha_prev # sim.alpha

\* The set of the calls logged.
Logged(s) == {s.calls[j] : j \in 1..Len(s.calls)}

\* The calls of callee logged for period p.
CallsIn(s, p, callee) == {c \in Logged(s) : c[1] = p /\ c[2] = callee}

\* In the period p just completed, a forecaster that was not asked to predict
\* was replaced by naive persistence: the period's Delta_C_p for the first
\* difference, zero for the second.
NaiveWhereNotAsked(s, p) ==
    /\ CallsIn(s, p, "Delta_C_p_forecaster.predict") = {} =>
          s.hat.Delta_C_p_hat = Last(s.Delta_C_p_hist)
    /\ CallsIn(s, p, "Delta2_C_p_forecaster.predict") = {} =>
          s.hat.Delta2_C_p_hat = Zeros(s.n)

\* C16 as stated: each forecaster's predict is invoked only when that
\* forecaster's own history holds W observations, and a forecaster not asked
\* is replaced by naive persistence.
C16_PredictOnlyOnFullHistory ==
    [][sim' # Unbound =>
          /\ \A c \in Logged(sim') :
                c[2] \in {"Delta_C_p_forecaster.predict",
                          "Delta2_C_p_forecaster.predict"} => c[3] = sim'.W
          /\ (sim # Unbound /\ t' = t + 1) => NaiveWhereNotAsked(sim', t)]_vars

\* C16, amended: predict of the first forecaster is invoked only when its
\* history holds W observations; predict of the second forecaster is invoked
\* only in periods t >= W in which its history holds min(t - 1, W)
\* observations and at least 2, which is W - 1 in period t = W; a forecaster
\* not asked in a period is replaced by naive persistence.
C16_PredictOnlyAfterWarmUp ==
    [][sim' # Unbound =>
          /\ \A c \in Logged(sim') :
                /\ c[2] = "Delta_C_p_forecaster.predict" => c[3] = sim'.W
                /\ c[2] = "Delta2_C_p_forecaster.predict" =>
                      /\ c[1] >= sim'.W
                      /\ c[3] = Min2(c[1] - 1, sim'.W)
                      /\ c[3] >= 2
          /\ (sim # Unbound /\ t' = t + 1) => NaiveWhereNotAsked(sim', t)]_vars

\* C16's case: a completed run with W = 3 in which period 3 asked the second
\* forecaster with 2 observations in its history, after two periods of naive
\* persistence.
C16_Witness ==
    /\ pc = "done"
    /\ sim.W = 3
    /\ <<3, "Delta2_C_p_forecaster.predict", 2>> \in Logged(sim)
    /\ <<3, "Delta_C_p_forecaster.predict", 3>> \in Logged(sim)
    /\ CallsIn(sim, 1, "Delta_C_p_forecaster.predict") = {}
    /\ CallsIn(sim, 2, "Delta2_C_p_forecaster.predict") = {}

FitAndPredict ==
    {"Delta_C_p_forecaster.fit", "Delta2_C_p_forecaster.fit",
     "Delta_C_p_forecaster.predict", "Delta2_C_p_forecaster.predict"}

\* The callees among FitAndPredict that period p of s called.
CalledIn(s, p) == {c[2] : c \in {d \in Logged(s) : d[1] = p}} \cap FitAndPredict

\* Period p of s forecast by naive persistence, without fit or predict.
NaivePeriod(s, p) ==
    /\ CalledIn(s, p) = {}
    /\ s.hat.Delta_C_p_hat = Last(s.Delta_C_p_hist)
    /\ s.hat.Delta2_C_p_hat = Zeros(s.n)

\* C17 as stated: a period t < W is forecast by naive persistence without
\* fit or predict, and every period t >= W fits both forecasters and takes
\* both forecasts from predict on the most recent observation.
C17_PredictFromWindowOn ==
    [][(pc = "run" /\ sim' # sim) =>
          IF t < sim.W
          THEN t' = t + 1 /\ NaivePeriod(sim', t)
          ELSE /\ t' = t + 1
               /\ CalledIn(sim', t) = FitAndPredict
               /\ sim'.hat.Delta_C_p_hat =
                     predict(sim'.Delta_C_p_forecaster,
                             Last(sim'.Delta_C_p_hist), 1)
               /\ sim'.hat.Delta2_C_p_hat =
                     predict(sim'.Delta2_C_p_forecaster,
                             Last(sim'.Delta2_C_p_hist), 1)]_vars

\* C17, amended: a period t < W is forecast by naive persistence without fit
\* or predict. A period t >= W calls fit; if it completes, both forecasters
\* were fit, Delta_C_p_hat is predict on this period's Delta_C_p, and
\* Delta2_C_p_hat is predict on the last second difference when at least two
\* second differences are recorded and zero, without a predict call, when
\* fewer are (period t = W for W <= 2). A period t >= W that does not
\* complete ends the run with an exception, and the exception is predict's
\* ValueError only for W = 1.
C17_PredictFromWindowOnWithTwo ==
    [][(pc = "run" /\ sim' # sim) =>
          IF t < sim.W
          THEN t' = t + 1 /\ NaivePeriod(sim', t)
          ELSE /\ "Delta_C_p_forecaster.fit" \in CalledIn(sim', t)
               /\ t' = t + 1 =>
                     /\ sim'.hat.Delta_C_p_hat =
                           predict(sim'.Delta_C_p_forecaster,
                                   Last(sim'.Delta_C_p_hist), 1)
                     /\ IF Len(sim'.Delta2_C_p_hist) >= 2
                        THEN /\ CalledIn(sim', t) = FitAndPredict
                             /\ sim'.hat.Delta2_C_p_hat =
                                   predict(sim'.Delta2_C_p_forecaster,
                                           Last(sim'.Delta2_C_p_hist), 1)
                        ELSE /\ CalledIn(sim', t) =
                                   FitAndPredict \ {"Delta2_C_p_forecaster.predict"}
                             /\ sim'.hat.Delta2_C_p_hat = Zeros(sim.n)
               /\ t' # t + 1 =>
                     /\ t' = t
                     /\ pc' = "failed"
                     /\ exc' = "ValueError: Model not fitted yet" => sim.W = 1]_vars

\* C17's case: a completed run with W = 2 whose period 2 fit both forecasters
\* and asked only the first, and whose period 3 asked both and got finite
\* forecasts.
C17_Witness ==
    /\ pc = "done"
    /\ sim.W = 2
    /\ sim.T = 4
    /\ CalledIn(sim, 1) = {}
    /\ CalledIn(sim, 2) = FitAndPredict \ {"Delta2_C_p_forecaster.predict"}
    /\ CalledIn(sim, 3) = FitAndPredict
    /\ \A i \in 1..sim.n : /\ sim.hat.Delta_C_p_hat[i] # NaN
                           /\ sim.hat.Delta2_C_p_hat[i] # NaN

\* The periods whose capital stock is written: period 1 by
\* initialize_simulation, and every stepped period.
Rolled == {1} \cup Stepped

\* C18: every written K[t], t >= 1, equals (I - Delta) K[t-1] + I[t-1]; and
\* no step changes K[0], I[0] or K[1], so the K[1] that the step for t = 1
\* writes is the K[1] that initialize_simulation wrote.
C18_CapitalRollsForward ==
    [][/\ sim' # Unbound =>
             \A p \in Rolled' :
                 sim'.states["K"][p] =
                     VAdd(MatVec(MatSub(Eye(sim'.n), sim'.Delta),
                                 sim'.states["K"][p - 1]),
                          sim'.states["I"][p - 1])
       /\ (sim # Unbound /\ sim' # Unbound) =>
             /\ sim'.states["K"][0] = sim.states["K"][0]
             /\ sim'.states["I"][0] = sim.states["I"][0]
             /\ sim'.states["K"][1] = sim.states["K"][1]]_vars

\* C18's case: a completed run of at least two stepped periods, with K[1]
\* written by initialize_simulation and again by the step for t = 1, a
\* depreciation that is not zero and a finite capital stock that moved.
C18_Witness ==
    /\ pc = "done"
    /\ sim.T >= 3
    /\ {<<"K", 1, 0>>, <<"K", 1, 1>>} \subseteq sim.written
    /\ MatVec(sim.Delta, sim.states["K"][0]) # Zeros(sim.n)
    /\ \A p \in 0..(sim.T - 1), i \in 1..sim.n : sim.states["K"][p][i] # NaN
    /\ sim.states["K"][sim.T - 1] # sim.states["K"][0]

\* The periods of the update_alpha calls logged, in the order of the calls.
UpdateAlphaPeriods(s) ==
    LET u == SelectSeq(s.calls, LAMBDA c : c[2] = "update_alpha")
    IN  [j \in 1..Len(u) |-> u[j][1]]

\* C19 as stated: the loop completes the step of each period t = 1..T-1 once
\* and in increasing order, with one update_alpha call in each, and returns
\* after the T-1 calls; no period ends any other way.
C19_EveryPeriodStepsOnce ==
    [][pc = "run" =>
          IF t < sim.T
          THEN /\ pc' = "run"
               /\ t' = t + 1
               /\ UpdateAlphaPeriods(sim') = [j \in 1..t |-> j]
          ELSE /\ pc' = "results"
               /\ UpdateAlphaPeriods(sim') = [j \in 1..(sim.T - 1) |-> j]]_vars

\* I[p] - Delta K[p]: investment beyond the replacement of period p's capital.
NetExpansion(s, p) ==
    VSub(s.states["I"][p], MatVec(s.Delta, s.states["K"][p]))

\* Sector i of the period p stepped last has the net expansion
\* Delta_K_e + Delta_K_u = max(0, Delta_K_e - K_u[p]) >= 0.
NetExpansionRationed(s, p, i) ==
    LET x  == NetExpansion(s, p)[i]
        e  == s.Delta_K_e_last[i]
        ku == s.states["K_u"][p][i]
    IN  /\ x # NaN
        /\ x = Add(e, Neg(Minimum(e, ku)))
        /\ x = (IF Less(0, Sub(e, ku)) THEN Sub(e, ku) ELSE 0)
        /\ x >= 0

C21_StepWritesOnlyItsPeriod ==
    [][/\ (pc = "run" /\ sim' # sim) =>
             /\ \A name \in SeriesNames, p \in 0..(sim.T - 1) :
                   p # t => sim'.states[name][p] = sim.states[name][p]
             /\ sim.written \subseteq sim'.written
             /\ \A w \in sim'.written \ sim.written : w[2] = t /\ w[3] = t
       /\ (sim # Unbound /\ sim' # Unbound /\ ~(pc = "run" /\ sim' # sim)) =>
             sim'.states = sim.states /\ sim'.written = sim.written
       /\ sim' # Unbound =>
             \A w \in sim'.written :
                 w[3] = 0 => (w[2] = 0 \/ (w[1] = "K" /\ w[2] = 1))]_vars

\* C21's case: a completed run of at least two stepped periods in which
\* initialize_simulation wrote K[1], every period's step wrote its own X and
\* K, and period 1's finite output differs from the last period's.
C21_Witness ==
    /\ pc = "done"
    /\ sim.T >= 3
    /\ <<"K", 1, 0>> \in sim.written
    /\ \A p \in 1..(sim.T - 1) :
          {<<"K", p, p>>, <<"X", p, p>>} \subseteq sim.written
    /\ \A i \in 1..sim.n : sim.states["X"][1][i] # NaN
    /\ sim.states["X"][1] # sim.states["X"][sim.T - 1]
    /\ sim.states["X"][1] # sim.states["X"][0]
====
